---- MODULE Spec2Model ----
(***************************************************************************)
(* Model of the notebook "2. Pipelines.ipynb": the pipeline parameters,    *)
(* the step definitions, the Pipeline object, and the cells that upsert    *)
(* the definition, start two executions and wait for / list them.  The     *)
(* managed service is modelled as the interpreter of the step graph the    *)
(* notebook declares: a step starts once the steps whose properties it     *)
(* references have succeeded, and the condition step selects the branch.   *)
(*                                                                         *)
(* Metric values are in hundredths: the constant 0.8 is written 80.        *)
(* The cache_config of the pre-processing step only decides whether its    *)
(* job is run again or its earlier result reused; either way the step      *)
(* ends as succeeded or failed, which is what is modelled.                 *)
(***************************************************************************)
EXTENDS Integers, Sequences, FiniteSets, TLC

VARIABLES
    pc,            \* index of the next notebook cell to run (see Cells)
    pipeline_obj,  \* the local Pipeline object: <<>> until constructed, then <<pipeline>>
    service,       \* pipeline definitions registered with the service (a set, keyed by name)
    executions,    \* the executions the service holds, in start order
    registry,      \* model packages in the model package group
    execution,     \* the notebook variable `execution`: index into executions, 0 when unbound
    nb_out         \* outputs of the notebook cells run so far, in order

vars == <<pc, pipeline_obj, service, executions, registry, execution, nb_out>>

----------------------------------------------------------------------------
(* Python values: a string or an integer, tagged with its type. *)
PyStr(v) == [type |-> "String", s |-> v, i |-> 0]
PyInt(v) == [type |-> "Integer", s |-> "", i |-> v]
Undefined == [type |-> "Undefined", s |-> "", i |-> 0]

raw_data_s3uri == "s3://bucket/sagemaker/DEMO-pipelines-churn/data/RawData.csv"
model_package_group_name == "ChurnModelPackageGroup-v1"
pipeline_name == "ChurnPipeline-v1"

(* Pipeline parameters. *)
processing_instance_count ==
    [name |-> "ProcessingInstanceCount", type |-> "Integer", default_value |-> PyInt(1)]

processing_instance_type ==
    [name |-> "ProcessingInstanceType", type |-> "String", default_value |-> PyStr("ml.m5.xlarge")]

input_data ==
    [name |-> "InputDataUrl", type |-> "String", default_value |-> PyStr(raw_data_s3uri)]

training_instance_type ==
    [name |-> "TrainingInstanceType", type |-> "String", default_value |-> PyStr("ml.m5.xlarge")]

training_max_depth ==
    [name |-> "TrainingMaxDepth", type |-> "String", default_value |-> PyStr("5")]

model_approval_status ==
    [name |-> "ModelApprovalStatus", type |-> "String",
     default_value |-> PyStr("PendingManualApproval")]

(* The property file the evaluation step publishes, and the metric in it. *)
evaluation_report == [name |-> "EvaluationReport", output_name |-> "evaluation",
                      path |-> "evaluation.json"]

(* Steps.  uses: the parameter objects the step is built from, by argument; *)
(* depends: the steps whose properties (or property files) it references. *)
step_process ==
    [name |-> "CustomerChurnProcess", type |-> "Processing",
     uses |-> [instance_type |-> processing_instance_type,
              instance_count |-> processing_instance_count,
              source |-> input_data],
     depends |-> {}, property_files |-> {},
     conditions |-> <<>>, if_steps |-> <<>>, else_steps |-> <<>>]

step_train_without_reference ==
    [name |-> "CustomerChurnTrain", type |-> "Training",
     uses |-> [instance_type |-> training_instance_type,
              max_depth |-> training_max_depth],
     depends |-> {}, property_files |-> {},
     conditions |-> <<>>, if_steps |-> <<>>, else_steps |-> <<>>]

step_train ==
    [name |-> "CustomerChurnTrain", type |-> "Training",
     uses |-> [instance_type |-> training_instance_type,
              max_depth |-> training_max_depth],
     depends |-> {step_process.name}, property_files |-> {},
     conditions |-> <<>>, if_steps |-> <<>>, else_steps |-> <<>>]

step_eval ==
    [name |-> "CustomerChurnEval", type |-> "Processing",
     uses |-> [instance_type |-> processing_instance_type],
     depends |-> {step_train.name, step_process.name},
     property_files |-> {evaluation_report.name},
     conditions |-> <<>>, if_steps |-> <<>>, else_steps |-> <<>>]

step_register ==
    [name |-> "CustomerChurnRegisterModel", type |-> "RegisterModel",
     uses |-> [approval_status |-> model_approval_status],
     depends |-> {step_train.name}, property_files |-> {},
     conditions |-> <<>>, if_steps |-> <<>>, else_steps |-> <<>>]

cond_register ==
    [type |-> "GreaterThanOrEqualTo",
     step_name |-> step_eval.name,
     property_file |-> evaluation_report.name,
     json_path |-> "binary_classification_metrics.f1.value",
     right |-> 80]

step_cond ==
    [name |-> "CustomerChurnAccuracyCond", type |-> "Condition",
     uses |-> <<>>,
     depends |-> {cond_register.step_name}, property_files |-> {},
     conditions |-> <<cond_register>>,
     if_steps |-> <<step_register.name>>, else_steps |-> <<>>]

(* Every step object the notebook builds, by name. *)
StepObjects == {step_process, step_train, step_eval, step_cond, step_register}

pipeline_missing_parameter ==
    [name |-> pipeline_name,
     parameters |-> <<processing_instance_type, processing_instance_count,
                      training_max_depth, training_instance_type,
                      input_data>>,
     steps |-> <<step_process, step_train, step_eval, step_cond>>]

pipeline ==
    [name |-> pipeline_name,
     parameters |-> <<processing_instance_type, processing_instance_count,
                      training_max_depth, training_instance_type,
                      model_approval_status, input_data>>,
     steps |-> <<step_process, step_train, step_eval, step_cond>>]

----------------------------------------------------------------------------
Range(f) == {f[x] : x \in DOMAIN f}

StepNamed(n) == CHOOSE s \in StepObjects : s.name = n

(* The steps of a definition: the top-level ones and those nested in the *)
(* branches of its condition steps.                                      *)
TopSteps(defn) == Range(defn.steps)

NestedNames(defn) ==
    UNION {Range(s.if_steps) \cup Range(s.else_steps) : s \in TopSteps(defn)}

AllSteps(defn) == TopSteps(defn) \cup {StepNamed(n) : n \in NestedNames(defn)}

StepNames(defn) == {s.name : s \in AllSteps(defn)}

DeclaredNames(defn) == {p.name : p \in Range(defn.parameters)}

Declared(defn, n) == CHOOSE p \in Range(defn.parameters) : p.name = n

----------------------------------------------------------------------------
(* The notebook's cells from the Pipeline construction on, in order. *)
NoParameters == <<>>

StartParametersIntegerDepth ==
    ("ProcessingInstanceType" :> PyStr("ml.c5.xlarge")) @@
    ("ModelApprovalStatus" :> PyStr("Approved")) @@
    ("TrainingMaxDepth" :> PyInt(6))

StartParameters ==
    ("ProcessingInstanceType" :> PyStr("ml.c5.xlarge")) @@
    ("ModelApprovalStatus" :> PyStr("Approved")) @@
    ("TrainingMaxDepth" :> PyStr("6"))

CellsStartBeforeUpsert ==
    << [op |-> "Pipeline",   parameters |-> NoParameters],
       [op |-> "start",      parameters |-> NoParameters],
       [op |-> "upsert",     parameters |-> NoParameters],
       [op |-> "describe",   parameters |-> NoParameters],
       [op |-> "wait",       parameters |-> NoParameters],
       [op |-> "list_steps", parameters |-> NoParameters],
       [op |-> "start",      parameters |-> StartParameters],
       [op |-> "wait",       parameters |-> NoParameters] >>

CellsSecondStartBeforeWait ==
    << [op |-> "Pipeline",   parameters |-> NoParameters],
       [op |-> "upsert",     parameters |-> NoParameters],
       [op |-> "start",      parameters |-> NoParameters],
       [op |-> "describe",   parameters |-> NoParameters],
       [op |-> "start",      parameters |-> StartParameters],
       [op |-> "wait",       parameters |-> NoParameters],
       [op |-> "list_steps", parameters |-> NoParameters],
       [op |-> "wait",       parameters |-> NoParameters] >>

Cells ==
    << [op |-> "Pipeline",   parameters |-> NoParameters],
       [op |-> "upsert",     parameters |-> NoParameters],
       [op |-> "start",      parameters |-> NoParameters],
       [op |-> "describe",   parameters |-> NoParameters],
       [op |-> "wait",       parameters |-> NoParameters],
       [op |-> "list_steps", parameters |-> NoParameters],
       [op |-> "start",      parameters |-> StartParameters],
       [op |-> "wait",       parameters |-> NoParameters] >>

AtCell(op) == pc \in DOMAIN Cells /\ Cells[pc].op = op

(* The values the evaluation job may report for the F1 metric (hundredths). *)
F1Values == {0, 50, 79, 80, 81, 100}

EvaluationReports ==
    {cond_register.json_path :> v : v \in F1Values}

----------------------------------------------------------------------------
(* Service side. *)

ResolveParametersDefaultsOnly(defn, overrides) ==
    [n \in DeclaredNames(defn) |-> Declared(defn, n).default_value]

(* The value of every declared parameter in an execution: the override *)
(* when one is supplied under the parameter's name, else the default.  *)
ResolveParameters(defn, overrides) ==
    [n \in DeclaredNames(defn) |->
        IF n \in DOMAIN overrides THEN overrides[n]
        ELSE Declared(defn, n).default_value]

(* What a step reads for a parameter object it was built from. *)
ParameterValue(x, p) ==
    IF p.name \in DOMAIN x.parameters THEN x.parameters[p.name] ELSE Undefined

NewExecution(defn, overrides) ==
    [definition     |-> defn,
     overrides      |-> overrides,
     parameters     |-> ResolveParameters(defn, overrides),
     status         |-> "Executing",
     steps          |-> [n \in StepNames(defn) |-> "NotStarted"],
     runs           |-> [n \in StepNames(defn) |-> 0],
     used           |-> [n \in StepNames(defn) |-> <<>>],
     property_files |-> [n \in StepNames(defn) |-> <<>>],
     outcome        |-> [n \in StepNames(defn) |-> "None"]]

(* A nested step is selected once its condition step has succeeded and *)
(* chosen the branch the step is in.                                   *)
Selected(x, n) ==
    \E c \in TopSteps(x.definition) :
        /\ x.steps[c.name] = "Succeeded"
        /\ \/ x.outcome[c.name] = "True" /\ n \in Range(c.if_steps)
           \/ x.outcome[c.name] = "False" /\ n \in Range(c.else_steps)

Scheduled(x, s) == s \in TopSteps(x.definition) \/ Selected(x, s.name)

ExecutionStatus(x) ==
    IF \E n \in DOMAIN x.steps : x.steps[n] = "Failed" THEN "Failed"
    ELSE IF \A s \in AllSteps(x.definition) :
                \/ x.steps[s.name] = "Succeeded"
                \/ /\ s \notin TopSteps(x.definition)
                   /\ ~Selected(x, s.name)
                   /\ \A c \in TopSteps(x.definition) : x.steps[c.name] = "Succeeded"
         THEN "Succeeded"
    ELSE "Executing"

WithStatus(x) == [x EXCEPT !.status = ExecutionStatus(x)]

ConditionGreaterThan(left, right) == left > right

ConditionGreaterThanOrEqualTo(left, right) == left >= right

JsonGet(x, cond) == x.property_files[cond.step_name][cond.json_path]

ConditionsHold(x, s) ==
    \A k \in DOMAIN s.conditions :
        ConditionGreaterThanOrEqualTo(JsonGet(x, s.conditions[k]), s.conditions[k].right)

TerminalOrRunning(x) == x.status \in {"Succeeded", "Failed", "Executing"}

Terminal(x) == x.status \in {"Succeeded", "Failed"}

Execs == DOMAIN executions

(* A step starts when the execution is running, the step is scheduled *)
(* and every step it references has succeeded.                        *)
StartStep(e, s) ==
    LET x == executions[e] IN
    /\ x.status = "Executing"
    /\ x.steps[s.name] = "NotStarted"
    /\ Scheduled(x, s)
    /\ \A d \in s.depends : x.steps[d] = "Succeeded"
    /\ executions' = [executions EXCEPT ![e] =
           [x EXCEPT !.steps[s.name] = "Executing",
                     !.runs[s.name] = @ + 1,
                     !.used[s.name] = [k \in DOMAIN s.uses |-> ParameterValue(x, s.uses[k])]]]
    /\ UNCHANGED <<pc, pipeline_obj, service, registry, execution, nb_out>>

(* A processing or training job completes; the evaluation job publishes *)
(* its property file.                                                   *)
FinishJob(e, s) ==
    LET x == executions[e] IN
    /\ s.type \in {"Processing", "Training"}
    /\ x.steps[s.name] = "Executing"
    /\ \E report \in EvaluationReports :
         executions' = [executions EXCEPT ![e] =
           WithStatus([x EXCEPT !.steps[s.name] = "Succeeded",
                                !.property_files[s.name] =
                                    IF s.property_files = {} THEN @ ELSE report])]
    /\ UNCHANGED <<pc, pipeline_obj, service, registry, execution, nb_out>>

EvaluateCondition(e, s) ==
    LET x == executions[e] IN
    /\ s.type = "Condition"
    /\ x.steps[s.name] = "Executing"
    /\ executions' = [executions EXCEPT ![e] =
           WithStatus([x EXCEPT !.steps[s.name] = "Succeeded",
                                !.outcome[s.name] =
                                    IF ConditionsHold(x, s) THEN "True" ELSE "False"])]
    /\ UNCHANGED <<pc, pipeline_obj, service, registry, execution, nb_out>>

RegisterApprovalStatusDefault(x, s) == s.uses.approval_status.default_value

RegisterApprovalStatus(x, s) == x.used[s.name].approval_status

RegisterModel(e, s) ==
    LET x == executions[e] IN
    /\ s.type = "RegisterModel"
    /\ x.steps[s.name] = "Executing"
    /\ executions' = [executions EXCEPT ![e] =
           WithStatus([x EXCEPT !.steps[s.name] = "Succeeded"])]
    /\ registry' = registry \cup
           {[model_package_group_name |-> model_package_group_name,
             execution |-> e,
             approval_status |-> RegisterApprovalStatus(x, s)]}
    /\ UNCHANGED <<pc, pipeline_obj, service, execution, nb_out>>

FailStepAndRetry(e, s) ==
    LET x == executions[e] IN
    /\ x.steps[s.name] = "Executing"
    /\ executions' = [executions EXCEPT ![e] = [x EXCEPT !.steps[s.name] = "NotStarted"]]
    /\ UNCHANGED <<pc, pipeline_obj, service, registry, execution, nb_out>>

FailStep(e, s) ==
    LET x == executions[e] IN
    /\ x.steps[s.name] = "Executing"
    /\ executions' = [executions EXCEPT ![e] =
           WithStatus([x EXCEPT !.steps[s.name] = "Failed"])]
    /\ UNCHANGED <<pc, pipeline_obj, service, registry, execution, nb_out>>

----------------------------------------------------------------------------
(* Notebook cells. *)
(* What a cell leaves behind: its position, the call, the value of the  *)
(* variable `execution` after the call, and the result of the call.     *)
Out(op, handle, result) == [cell |-> pc, op |-> op, execution |-> handle, result |-> result]

ConstructPipeline ==
    /\ AtCell("Pipeline")
    /\ pipeline_obj' = <<pipeline>>
    /\ pc' = pc + 1
    /\ nb_out' = Append(nb_out, Out("Pipeline", execution, "ok"))
    /\ UNCHANGED <<service, executions, registry, execution>>

Upsert ==
    /\ AtCell("upsert")
    /\ pipeline_obj # <<>>
    /\ service' = {d \in service : d.name # pipeline_obj[1].name} \cup {pipeline_obj[1]}
    /\ pc' = pc + 1
    /\ nb_out' = Append(nb_out, Out("upsert", execution, "ok"))
    /\ UNCHANGED <<pipeline_obj, executions, registry, execution>>

Start ==
    /\ AtCell("start")
    /\ pipeline_obj # <<>>
    /\ IF \E d \in service : d.name = pipeline_obj[1].name
       THEN LET defn == CHOOSE d \in service : d.name = pipeline_obj[1].name IN
            /\ executions' = Append(executions, NewExecution(defn, Cells[pc].parameters))
            /\ execution' = Len(executions) + 1
            /\ nb_out' = Append(nb_out, Out("start", Len(executions) + 1, "started"))
       ELSE /\ nb_out' = Append(nb_out, Out("start", execution, "ResourceNotFound"))
            /\ UNCHANGED <<executions, execution>>
    /\ pc' = pc + 1
    /\ UNCHANGED <<pipeline_obj, service, registry>>

Describe ==
    /\ AtCell("describe")
    /\ execution \in Execs
    /\ nb_out' = Append(nb_out, Out("describe", execution, executions[execution].status))
    /\ pc' = pc + 1
    /\ UNCHANGED <<pipeline_obj, service, executions, registry, execution>>

(* wait() blocks until the execution is no longer running. *)
Wait ==
    /\ AtCell("wait")
    /\ execution \in Execs
    /\ Terminal(executions[execution])
    /\ nb_out' = Append(nb_out, Out("wait", execution, executions[execution].status))
    /\ pc' = pc + 1
    /\ UNCHANGED <<pipeline_obj, service, executions, registry, execution>>

ListSteps ==
    /\ AtCell("list_steps")
    /\ execution \in Execs
    /\ nb_out' = Append(nb_out, Out("list_steps", execution,
           {<<n, executions[execution].steps[n]>> :
               n \in {m \in DOMAIN executions[execution].steps :
                         executions[execution].steps[m] # "NotStarted"}}))
    /\ pc' = pc + 1
    /\ UNCHANGED <<pipeline_obj, service, executions, registry, execution>>

----------------------------------------------------------------------------
Init ==
    /\ pc = 1
    /\ pipeline_obj = <<>>
    /\ service = {}
    /\ executions = <<>>
    /\ registry = {}
    /\ execution = 0
    /\ nb_out = <<>>

StepStarts == \E e \in Execs : \E s \in AllSteps(executions[e].definition) : StartStep(e, s)

JobFinishes == \E e \in Execs : \E s \in AllSteps(executions[e].definition) : FinishJob(e, s)

ConditionEvaluated ==
    \E e \in Execs : \E s \in AllSteps(executions[e].definition) : EvaluateCondition(e, s)

ModelRegistered ==
    \E e \in Execs : \E s \in AllSteps(executions[e].definition) : RegisterModel(e, s)

StepFails == \E e \in Execs : \E s \in AllSteps(executions[e].definition) : FailStep(e, s)

Service ==
    \/ StepStarts
    \/ JobFinishes
    \/ ConditionEvaluated
    \/ ModelRegistered
    \/ StepFails

Notebook ==
    \/ ConstructPipeline
    \/ Upsert
    \/ Start
    \/ Describe
    \/ Wait
    \/ ListSteps

Next == Notebook \/ Service

Spec == Init /\ [][Next]_vars

(* The service keeps scheduling and jobs end; the cells are run in order. *)
LiveSpec == Spec /\ WF_vars(Service) /\ WF_vars(Notebook)

----------------------------------------------------------------------------
(* Names used by the properties below. *)
Process  == "CustomerChurnProcess"
Train    == "CustomerChurnTrain"
Eval     == "CustomerChurnEval"
Cond     == "CustomerChurnAccuracyCond"
Register == "CustomerChurnRegisterModel"
F1Path   == "binary_classification_metrics.f1.value"

Started(x, n) == x.steps[n] # "NotStarted"

HasF1(x) == F1Path \in DOMAIN x.property_files[Eval]

F1(x) == x.property_files[Eval][F1Path]

C2_OnlyStrictlyHigher ==
    \A e \in Execs :
        LET x == executions[e] IN
        Started(x, Register) => (HasF1(x) /\ F1(x) > 80)

(* C3: in every execution training starts only after pre-processing has  *)
(* succeeded, evaluation only after pre-processing and training have     *)
(* succeeded, the condition only after evaluation has succeeded, and     *)
(* registration only after the condition has been evaluated; no step     *)
(* runs more than once, and the dependency graph has no cycle.           *)
DependencyEdges(defn) ==
    {<<a, b>> \in StepNames(defn) \X StepNames(defn) :
        \/ b \in StepNamed(a).depends
        \/ a \in Range(StepNamed(b).if_steps) \cup Range(StepNamed(b).else_steps)}

RECURSIVE Reaches(_, _, _, _)
Reaches(edges, a, b, fuel) ==
    \/ <<a, b>> \in edges
    \/ /\ fuel > 0
       /\ \E m \in {c[2] : c \in {w \in edges : w[1] = a}} : Reaches(edges, m, b, fuel - 1)

Acyclic(defn) ==
    \A n \in StepNames(defn) :
        ~Reaches(DependencyEdges(defn), n, n, Cardinality(StepNames(defn)))

C3_StepOrder ==
    \A e \in Execs :
        LET x == executions[e] IN
        /\ Started(x, Train) => x.steps[Process] = "Succeeded"
        /\ Started(x, Eval) =>
               x.steps[Process] = "Succeeded" /\ x.steps[Train] = "Succeeded"
        /\ Started(x, Cond) => x.steps[Eval] = "Succeeded"
        /\ Started(x, Register) =>
               x.steps[Cond] = "Succeeded" /\ x.outcome[Cond] # "None"
        /\ \A n \in DOMAIN x.runs : x.runs[n] <= 1
        /\ \A n \in DOMAIN x.runs : Started(x, n) <=> x.runs[n] = 1
        /\ Acyclic(x.definition)

C3_Witness ==
    \E e \in Execs :
        \A n \in {Process, Train, Eval, Cond, Register} :
            executions[e].steps[n] = "Succeeded" /\ executions[e].runs[n] = 1

(* C4: nothing is registered with the service before the upsert cell has  *)
(* run, every start call comes after a completed upsert and creates an    *)
(* execution, and the definition an execution runs is the upserted one:   *)
(* the four top-level steps and the six parameters given to Pipeline.     *)
UpsertDoneBefore(i) ==
    \E j \in 1..(i - 1) : nb_out[j].op = "upsert" /\ nb_out[j].result = "ok"

C4_UpsertBeforeStart ==
    /\ service # {} => UpsertDoneBefore(Len(nb_out) + 1)
    /\ \A i \in DOMAIN nb_out :
           nb_out[i].op = "start" =>
               UpsertDoneBefore(i) /\ nb_out[i].result = "started"
    /\ \A e \in Execs :
           LET d == executions[e].definition IN
           /\ d \in service
           /\ UpsertDoneBefore(Len(nb_out) + 1)
           /\ [k \in DOMAIN d.steps |-> d.steps[k].name] = <<Process, Train, Eval, Cond>>
           /\ [k \in DOMAIN d.parameters |-> d.parameters[k].name] =
                  <<"ProcessingInstanceType", "ProcessingInstanceCount",
                    "TrainingMaxDepth", "TrainingInstanceType",
                    "ModelApprovalStatus", "InputDataUrl">>

C4_Witness ==
    /\ Len(executions) = 2
    /\ \E i \in DOMAIN nb_out : nb_out[i].op = "start" /\ nb_out[i].execution = 2

(* C5: every declared parameter of an execution has the override given to *)
(* start() under its name, else its declared default; the first execution *)
(* uses the six defaults, the second the three overrides and the other    *)
(* three defaults; the steps read these values; and the defaults held by  *)
(* the service are not changed by an execution's overrides.               *)
DefaultValues ==
    ("ProcessingInstanceCount" :> PyInt(1)) @@
    ("ProcessingInstanceType" :> PyStr("ml.m5.xlarge")) @@
    ("InputDataUrl" :> PyStr(raw_data_s3uri)) @@
    ("TrainingInstanceType" :> PyStr("ml.m5.xlarge")) @@
    ("TrainingMaxDepth" :> PyStr("5")) @@
    ("ModelApprovalStatus" :> PyStr("PendingManualApproval"))

SecondValues ==
    ("ProcessingInstanceCount" :> PyInt(1)) @@
    ("ProcessingInstanceType" :> PyStr("ml.c5.xlarge")) @@
    ("InputDataUrl" :> PyStr(raw_data_s3uri)) @@
    ("TrainingInstanceType" :> PyStr("ml.m5.xlarge")) @@
    ("TrainingMaxDepth" :> PyStr("6")) @@
    ("ModelApprovalStatus" :> PyStr("Approved"))

C5_ParameterValues ==
    /\ \A e \in Execs :
           LET x == executions[e] IN
           /\ \A k \in DOMAIN x.definition.parameters :
                  LET p == x.definition.parameters[k] IN
                  x.parameters[p.name] =
                      IF p.name \in DOMAIN x.overrides
                      THEN x.overrides[p.name] ELSE p.default_value
           /\ e = 1 => x.parameters = DefaultValues
           /\ e = 2 => x.parameters = SecondValues
           /\ \A n \in DOMAIN x.used : \A a \in DOMAIN x.used[n] :
                  x.used[n][a] = x.parameters[StepNamed(n).uses[a].name]
    /\ \A d \in service : \A k \in DOMAIN d.parameters :
           d.parameters[k].default_value = DefaultValues[d.parameters[k].name]

C5_Witness ==
    /\ Len(executions) = 2
    /\ executions[1].used[Process] # <<>>
    /\ executions[2].used[Process] # <<>>
    /\ executions[2].used[Train] # <<>>
    /\ executions[2].used[Process].instance_type = PyStr("ml.c5.xlarge")

(* C6: a model package carries the ModelApprovalStatus value of the       *)
(* execution that registered it: PendingManualApproval for the execution  *)
(* started with defaults, Approved for the second execution.              *)
C6_ApprovalStatus ==
    \A pkg \in registry :
        /\ pkg.execution \in Execs
        /\ pkg.approval_status = executions[pkg.execution].parameters["ModelApprovalStatus"]
        /\ pkg.execution = 1 => pkg.approval_status = PyStr("PendingManualApproval")
        /\ pkg.execution = 2 => pkg.approval_status = PyStr("Approved")

C6_Witness ==
    /\ \E pkg \in registry : pkg.execution = 1
    /\ \E pkg \in registry : pkg.execution = 2 /\ pkg.approval_status = PyStr("Approved")

(* C7: every parameter object a step is built from is in the parameters   *)
(* list of the definition the execution runs, so no step reads a          *)
(* parameter the definition does not declare.                             *)
C7_ParametersDeclared ==
    \A e \in Execs :
        LET x == executions[e] IN
        /\ \A s \in AllSteps(x.definition) : \A a \in DOMAIN s.uses :
               s.uses[a] \in Range(x.definition.parameters)
        /\ \A n \in DOMAIN x.used : \A a \in DOMAIN x.used[n] :
               x.used[n][a] # Undefined

C7_Witness ==
    \E e \in Execs :
        LET x == executions[e] IN
        /\ DOMAIN x.used[Process] = {"instance_type", "instance_count", "source"}
        /\ DOMAIN x.used[Train] = {"instance_type", "max_depth"}
        /\ DOMAIN x.used[Eval] = {"instance_type"}
        /\ DOMAIN x.used[Register] = {"approval_status"}

(* C8: every key of the dictionary passed to start() is the name of a     *)
(* parameter the definition declares, and its value has the declared      *)
(* type of that parameter; the three overrides are string parameters      *)
(* given string values.                                                   *)
C8_OverrideKeys ==
    \A e \in Execs :
        LET x == executions[e] IN
        /\ \A k \in DOMAIN x.overrides :
               /\ \E j \in DOMAIN x.definition.parameters :
                      /\ x.definition.parameters[j].name = k
                      /\ x.definition.parameters[j].type = x.overrides[k].type
               /\ x.overrides[k].type = "String"
        /\ e = 2 => DOMAIN x.overrides =
               {"ProcessingInstanceType", "ModelApprovalStatus", "TrainingMaxDepth"}

C8_Witness ==
    /\ Len(executions) = 2
    /\ Cardinality(DOMAIN executions[2].overrides) = 3

(* C9: wait() returns only once the execution it waits on is no longer    *)
(* running, so the list_steps() that follows shows no running step; and   *)
(* when started steps finish, every started execution ends and every      *)
(* wait() returns.                                                        *)
WaitCells == {c \in DOMAIN Cells : Cells[c].op = "wait"}

C9_WaitReturnsAfterEnd ==
    \A i \in DOMAIN nb_out :
        /\ nb_out[i].op = "wait" =>
               /\ nb_out[i].result \in {"Succeeded", "Failed"}
               /\ executions[nb_out[i].execution].status = nb_out[i].result
               /\ \A n \in DOMAIN executions[nb_out[i].execution].steps :
                      executions[nb_out[i].execution].steps[n] # "Executing"
        /\ (nb_out[i].op = "list_steps" /\ i > 1 /\ nb_out[i - 1].op = "wait") =>
               \A r \in nb_out[i].result : r[2] \in {"Succeeded", "Failed"}

C9_Wait ==
    /\ []C9_WaitReturnsAfterEnd
    /\ \A e \in DOMAIN Cells :
           (e \in Execs) ~> (e \in Execs /\ executions[e].status \in {"Succeeded", "Failed"})
    /\ \A c \in WaitCells : (pc = c) ~> (pc = c + 1)

C9_Witness ==
    /\ \E i \in DOMAIN nb_out : nb_out[i].op = "list_steps" /\ nb_out[i].result # {}
    /\ Cardinality({i \in DOMAIN nb_out : nb_out[i].op = "wait"}) = 2
    /\ pc = Len(Cells) + 1

(* C10: a failed execution is reported as failed by wait() and the failed *)
(* step as failed by list_steps(); no step that depends on the failed     *)
(* step runs and the execution registers no model; a failed step stays    *)
(* failed and is not run again; and the notebook starts exactly one       *)
(* execution per start cell, whatever the outcome of the previous one.    *)
StepOrder == <<Process, Train, Eval, Cond, Register>>

C10_NoRecovery ==
    /\ \A e \in Execs :
           LET x == executions[e] IN
           /\ \A k \in DOMAIN StepOrder :
                  x.steps[StepOrder[k]] = "Failed" =>
                      /\ x.status = "Failed"
                      /\ x.runs[StepOrder[k]] = 1
                      /\ \A j \in DOMAIN StepOrder : j > k => ~Started(x, StepOrder[j])
                      /\ \A pkg \in registry : pkg.execution # e
           /\ \A n \in DOMAIN x.runs : x.runs[n] <= 1
    /\ \A i \in DOMAIN nb_out :
           LET o == nb_out[i] IN
           /\ o.op = "wait" =>
                  (o.result = "Failed" <=>
                       \E n \in DOMAIN executions[o.execution].steps :
                           executions[o.execution].steps[n] = "Failed")
           /\ o.op = "list_steps" =>
                  \A n \in DOMAIN executions[o.execution].steps :
                      executions[o.execution].steps[n] = "Failed" => <<n, "Failed">> \in o.result
    /\ Len(executions) = Cardinality({i \in DOMAIN nb_out : nb_out[i].op = "start"})
    /\ Len(executions) <= Cardinality({c \in DOMAIN Cells : Cells[c].op = "start"})

C10_FailedStays ==
    \A e \in Execs : \A n \in DOMAIN executions[e].steps :
        executions[e].steps[n] = "Failed" =>
            /\ executions'[e].steps[n] = "Failed"
            /\ executions'[e].runs = executions[e].runs
            /\ executions'[e].status = "Failed"

C10_NoRetry == []C10_NoRecovery /\ [][C10_FailedStays]_vars

C10_Witness ==
    /\ Len(executions) = 2
    /\ executions[1].steps[Train] = "Failed"
    /\ \E i \in DOMAIN nb_out :
           nb_out[i].op = "wait" /\ nb_out[i].execution = 1 /\ nb_out[i].result = "Failed"
    /\ \E i \in DOMAIN nb_out :
           nb_out[i].op = "list_steps" /\ <<Train, "Failed">> \in nb_out[i].result
    /\ pc = Len(Cells) + 1

(* C11: with the cells run in order the two executions never overlap: at  *)
(* most one execution is running at any moment, the second start() comes  *)
(* only after wait() on the first execution has returned, the first       *)
(* execution has ended by the time the second exists, and the describe,   *)
(* wait and list_steps calls made before the second start() all refer to  *)
(* the first execution.                                                   *)
StartOuts == {i \in DOMAIN nb_out : nb_out[i].op = "start"}

SecondStartAt(i) == i \in StartOuts /\ \E j \in StartOuts : j < i

C11_NoOverlap ==
    /\ Cardinality({e \in Execs : executions[e].status = "Executing"}) <= 1
    /\ \A e \in Execs : \A f \in Execs :
           e < f => executions[e].status \in {"Succeeded", "Failed"}
    /\ \A i \in DOMAIN nb_out :
           SecondStartAt(i) =>
               /\ nb_out[i].execution = 2
               /\ \E j \in 1..(i - 1) :
                      /\ nb_out[j].op = "wait"
                      /\ nb_out[j].execution = 1
                      /\ nb_out[j].result \in {"Succeeded", "Failed"}
    /\ \A i \in DOMAIN nb_out :
           (/\ nb_out[i].op \in {"describe", "wait", "list_steps"}
            /\ \E j \in StartOuts : j < i
            /\ ~\E j \in 1..i : SecondStartAt(j)) =>
               nb_out[i].execution = 1

C11_Witness ==
    /\ Len(executions) = 2
    /\ executions[1].status = "Succeeded"
    /\ executions[2].status = "Executing"
    /\ executions[2].steps[Train] = "Executing"
    /\ \A op \in {"describe", "wait", "list_steps"} :
           \E i \in DOMAIN nb_out : nb_out[i].op = op /\ nb_out[i].execution = 1

====
